---- MODULE Spec2Model ----
(***************************************************************************)
(* Model of scripts/freelancer-tests/oauth2_flow.py: the OAuth2            *)
(* authorization-code flow with its one-shot local callback listener, and  *)
(* the client-credentials flow.                                            *)
(*                                                                         *)
(* Two tasks: the main task (main) and the daemon thread running           *)
(* start_callback_server.  The environment supplies the configuration,     *)
(* the user's menu choice, the inbound HTTP requests and the replies of    *)
(* the token endpoint.                                                     *)
(*                                                                         *)
(* SearchSpec and MonitorSpec model search_projects and monitor_projects   *)
(* of scripts/freelancer-tests/example_search_and_monitor.py.              *)
(*                                                                         *)
(* ClientSpec models one PipeboardMetaAdsClient of                         *)
(* sponsor-example-scripts/meta/src/pipeboard_client.py whose methods are  *)
(* called directly; PostAdSpec and VerifySpec model the runs of            *)
(* post_ad_example.py and verify_setup.py, which use such a client.        *)
(***************************************************************************)
EXTENDS Integers, Sequences, FiniteSets, TLC

VARIABLES
    CLIENT_ID,       \* module constant read from the environment (line 19)
    CLIENT_SECRET,   \* module constant read from the environment (line 20)
    REDIRECT_URI,    \* module constant read from the environment (line 21)
    auth_code,       \* the global captured authorization code (line 28)
    pc,              \* position of the main task inside main()
    choice,          \* the menu choice read by input()
    server_thread,   \* state of the thread running start_callback_server
    request,         \* the inbound request the handler is serving
    response,        \* the HTTP response the handler has sent
    served,          \* number of requests the listener has handled
    refused,         \* inbound requests that arrived after the listener stopped
    browser,         \* URLs handed to webbrowser.open
    posts,           \* POSTs issued to the token endpoint
    token_reply,     \* reply of the token endpoint to the POST in flight
    token_data,      \* value returned by the exchanger
    join_result,     \* how server_thread.join(timeout=60) returned
    thread_at_join,  \* state of the server thread when join returned
    report           \* what main printed as the outcome of the run

\* scripts/freelancer-tests/example_search_and_monitor.py
VARIABLES
    skills,          \* argument skills of the search_projects call
    min_budget,      \* argument min_budget of the search_projects call
    max_budget,      \* argument max_budget of the search_projects call
    params,          \* the dict params handed to requests.get
    search_pc,       \* position of a direct search_projects call
    projects,        \* the list the last search_projects call returned
    max_iterations,  \* argument max_iterations of monitor_projects
    iteration,       \* local iteration of monitor_projects
    seen_projects,   \* local seen_projects of monitor_projects
    printed,         \* project ids monitor_projects printed as new, in order
    checks,          \* number of searches monitor_projects has made
    sleeps,          \* number of time.sleep calls monitor_projects has made
    monitor_pc       \* position of monitor_projects

\* sponsor-example-scripts/meta: src/pipeboard_client.py, post_ad_example.py
\* and verify_setup.py
VARIABLES
    api_token,       \* PIPEBOARD_API_TOKEN as os.getenv returned it
    ad_account_id,   \* META_AD_ACCOUNT_ID as os.getenv returned it
    page_id,         \* META_PAGE_ID as os.getenv returned it
    cta_url,         \* AD_CTA_URL, or its default
    request_id,      \* self._request_id of the PipeboardMetaAdsClient
    calls,           \* the JSON-RPC payloads posted to the endpoint, in order
    outcomes,        \* how each _call_mcp_tool call ended, in order
    fields,          \* local fields of the last get_insights call
    returned,        \* how the last client method called directly ended
    image_hash,      \* local image_hash of post_ad_example.main
    campaign_id,     \* local campaign_id of post_ad_example.main
    adset_id,        \* local adset_id of post_ad_example.main
    creative_id,     \* local creative_id of post_ad_example.main
    ad_id,           \* local ad_id of post_ad_example.main
    post_printed,    \* what post_ad_example.main printed for each step
    post_pc,         \* position of post_ad_example.main
    target_account,  \* local target_account of verify_setup.main
    verified,        \* value verify_setup.main returned
    verify_pc        \* position of verify_setup.main

oauth_vars == << CLIENT_ID, CLIENT_SECRET, REDIRECT_URI, auth_code, pc, choice,
                 server_thread, request, response, served, refused, browser,
                 posts, token_reply, token_data, join_result, thread_at_join,
                 report >>

search_vars == << skills, min_budget, max_budget, params, search_pc, projects >>

monitor_vars == << max_iterations, iteration, seen_projects, printed, checks,
                   sleeps, monitor_pc >>

client_vars == << api_token, ad_account_id, page_id, cta_url, request_id, calls,
                  outcomes, fields, returned >>

post_vars == << image_hash, campaign_id, adset_id, creative_id, ad_id,
                post_printed, post_pc >>

verify_vars == << target_account, verified, verify_pc >>

meta_vars == << client_vars, post_vars, verify_vars >>

\* The variables of the scripts other than oauth2_flow.py.
non_oauth_vars == << search_vars, monitor_vars, meta_vars >>

vars == << oauth_vars, search_vars, monitor_vars, meta_vars >>

-----------------------------------------------------------------------------
(* Bounds of the model *)

MaxParams == 2

MaxBodyPairs == 2

MaxLate == 1

MaxSkills == 2

MaxProjects == 2

MaxIterations == 3

MaxChecks == 3

MaxCalls == 3

-----------------------------------------------------------------------------
(* Python values *)

\* An optional value is a sequence of length 0 (None) or 1.
None == << >>

Some(v) == << v >>

AUTH_URL == "https://accounts.freelancer.com/oauth/authorise"

TOKEN_URL == "https://accounts.freelancer.com/oauth/token"

DEFAULT_REDIRECT_URI == "http://localhost:8080/callback"

\* Sequences over S of length 0..n
SeqUpTo(S, n) == UNION { [1..k -> S] : k \in 0..n }

-----------------------------------------------------------------------------
(* Inputs supplied by the environment *)

ClientIds == { "", "abc" }

ClientSecrets == { "", "s3cret" }

SPECIAL_REDIRECT_URI == "https://app.example/cb?a=1&b=2"

RedirectUris == { DEFAULT_REDIRECT_URI, SPECIAL_REDIRECT_URI }

Choices == { "1", "2", "3" }

Methods == { "GET", "POST" }

Paths == { "/callback", "/other" }

ParamNames == { "code", "error" }

\* Raw (still percent-encoded) parameter values, as sequences of tokens: a
\* token is a literal character, "+", or one percent escape.
RawValues == { << >>, << "X" >>, << "%59", "+" >> }

Queries == SeqUpTo(ParamNames \X RawValues, MaxParams)

Requests == [ method : Methods, path : Paths, query : Queries ]

NoRequest == [ method |-> "", path |-> "", query |-> << >> ]

NoResponse == [ status |-> 0, error |-> << >> ]

\* Members of the JSON object a token endpoint may answer with, in text order.
BodyPairs == { << "access_token", "t1" >>, << "access_token", "t2" >>,
               << "refresh_token", "r1" >> }

Bodies == [ json : { TRUE }, pairs : SeqUpTo(BodyPairs, MaxBodyPairs) ]
            \cup { [ json |-> FALSE, pairs |-> << >> ] }

Statuses == { 200, 201, 401 }

\* What requests.post can produce: a response, or a transport exception.
TokenReplies == [ kind : { "response" }, status : Statuses, body : Bodies ]
                  \cup { [ kind |-> "exception", status |-> 0,
                           body |-> [ json |-> FALSE, pairs |-> << >> ] ] }

NoReply == [ kind |-> "none", status |-> 0,
             body |-> [ json |-> FALSE, pairs |-> << >> ] ]

-----------------------------------------------------------------------------
(* urllib.parse.parse_qs, as do_GET calls it (keep_blank_values = False) *)

\* unquote of one token; parse_qs first replaces "+" by a space.
DecodeToken(t) ==
    IF t = "+" THEN " "
    ELSE IF t = "%59" THEN "Y"
    ELSE t

Unquote(raw) == [ i \in 1..Len(raw) |-> DecodeToken(raw[i]) ]

\* The decoded values of parameter name, in order; blank values are dropped.
RECURSIVE ValuesOf(_, _)
ValuesOf(query, name) ==
    IF query = << >> THEN << >>
    ELSE LET pair == Head(query)
             rest == ValuesOf(Tail(query), name)
         IN  IF pair[1] = name /\ Len(pair[2]) > 0
             THEN << Unquote(pair[2]) >> \o rest
             ELSE rest

parse_qs(query) ==
    [ name \in { query[i][1] : i \in { j \in DOMAIN query : Len(query[j][2]) > 0 } }
        |-> ValuesOf(query, name) ]

-----------------------------------------------------------------------------
(* OAuthCallbackHandler *)

\* Python truthiness of an optional string: neither None nor "".
Truthy(opt) == opt # None /\ Len(opt[1]) > 0

\* Variant of do_GET_auth_code that takes the last value, query_params['code'][-1].
do_GET_auth_code_last(query, old) ==
    LET query_params == parse_qs(query)
    IN  IF "code" \in DOMAIN query_params
        THEN Some(query_params["code"][Len(query_params["code"])])
        ELSE old

\* The value do_GET leaves in the global auth_code.
do_GET_auth_code(query, old) ==
    LET query_params == parse_qs(query)
    IN  IF "code" \in DOMAIN query_params
        THEN Some(query_params["code"][1])
        ELSE old

\* Variant of do_GET_response that sends 200 on both branches.
do_GET_response_always_200(query) ==
    LET query_params == parse_qs(query)
    IN  IF "code" \in DOMAIN query_params
        THEN [ status |-> 200, error |-> << >> ]
        ELSE [ status |-> 200,
               error  |-> IF "error" \in DOMAIN query_params
                          THEN query_params["error"][1]
                          ELSE << "Unknown error" >> ]

\* Variant of do_GET_response that echoes an empty string when the request
\* has no error parameter, query_params.get('error', [''])[0].
do_GET_response_no_default(query) ==
    LET query_params == parse_qs(query)
    IN  IF "code" \in DOMAIN query_params
        THEN [ status |-> 200, error |-> << >> ]
        ELSE [ status |-> 400,
               error  |-> IF "error" \in DOMAIN query_params
                          THEN query_params["error"][1]
                          ELSE << >> ]

\* The status line and the error string do_GET writes.
do_GET_response(query) ==
    LET query_params == parse_qs(query)
    IN  IF "code" \in DOMAIN query_params
        THEN [ status |-> 200, error |-> << >> ]
        ELSE [ status |-> 400,
               error  |-> IF "error" \in DOMAIN query_params
                          THEN query_params["error"][1]
                          ELSE << "Unknown error" >> ]

\* The handler class defines do_GET only: BaseHTTPRequestHandler answers any
\* other method with 501 and runs no handler code.
HandlerAuthCode(req, old) ==
    IF req.method = "GET" THEN do_GET_auth_code(req.query, old) ELSE old

HandlerResponse(req) ==
    IF req.method = "GET" THEN do_GET_response(req.query)
    ELSE [ status |-> 501, error |-> << >> ]

-----------------------------------------------------------------------------
(* start_callback_server, run by the daemon thread *)

\* The process ends when main returns; the daemon thread dies with it.
ProcessAlive == pc # "done"

\* HTTPServer(('localhost', 8080), ...) binds and listens.
ServerBind ==
    /\ ProcessAlive
    /\ server_thread = "started"
    /\ server_thread' = "listening"
    /\ UNCHANGED << non_oauth_vars, CLIENT_ID, CLIENT_SECRET, REDIRECT_URI, auth_code, pc,
                    choice, request, response, served, refused, browser,
                    posts, token_reply, token_data, join_result,
                    thread_at_join, report >>

\* The port is taken: the constructor raises and the thread ends.
ServerBindFail ==
    /\ ProcessAlive
    /\ server_thread = "started"
    /\ server_thread' = "finished"
    /\ UNCHANGED << non_oauth_vars, CLIENT_ID, CLIENT_SECRET, REDIRECT_URI, auth_code, pc,
                    choice, request, response, served, refused, browser,
                    posts, token_reply, token_data, join_result,
                    thread_at_join, report >>

\* handle_request() accepts one inbound request.
ServerAccept ==
    /\ ProcessAlive
    /\ server_thread = "listening"
    /\ \E req \in Requests : request' = req
    /\ server_thread' = "handling"
    /\ UNCHANGED << non_oauth_vars, CLIENT_ID, CLIENT_SECRET, REDIRECT_URI, auth_code, pc,
                    choice, response, served, refused, browser, posts,
                    token_reply, token_data, join_result, thread_at_join,
                    report >>

\* The handler runs on the accepted request.
ServerHandle ==
    /\ ProcessAlive
    /\ server_thread = "handling"
    /\ auth_code' = HandlerAuthCode(request, auth_code)
    /\ response' = HandlerResponse(request)
    /\ served' = served + 1
    /\ server_thread' = "responded"
    /\ UNCHANGED << non_oauth_vars, CLIENT_ID, CLIENT_SECRET, REDIRECT_URI, pc, choice,
                    request, refused, browser, posts, token_reply, token_data,
                    join_result, thread_at_join, report >>

\* Variant of AfterHandleRequest for a listener that keeps serving
\* (serve_forever() in place of handle_request()).
AfterHandleRequest_serve_forever == "listening"

\* State of the thread once handle_request() has served its request.
AfterHandleRequest == "finished"

\* handle_request() returns, start_callback_server returns, the thread ends.
ServerReturn ==
    /\ ProcessAlive
    /\ server_thread = "responded"
    /\ server_thread' = AfterHandleRequest
    /\ request' = NoRequest
    /\ UNCHANGED << non_oauth_vars, CLIENT_ID, CLIENT_SECRET, REDIRECT_URI, auth_code, pc,
                    choice, response, served, refused, browser, posts,
                    token_reply, token_data, join_result, thread_at_join,
                    report >>

\* A request sent to the port after the listener has stopped: nothing is
\* listening any more, so no handler runs.
LateRequest ==
    /\ ProcessAlive
    /\ server_thread = "finished"
    /\ refused < MaxLate
    /\ refused' = refused + 1
    /\ UNCHANGED << non_oauth_vars, CLIENT_ID, CLIENT_SECRET, REDIRECT_URI, auth_code, pc,
                    choice, server_thread, request, response, served, browser,
                    posts, token_reply, token_data, join_result,
                    thread_at_join, report >>

-----------------------------------------------------------------------------
(* get_authorization_url, exchange_code_for_token, client_credentials_flow *)

\* The characters of a string, cut into runs at the two characters that
\* delimit a query string: "&" and "=" stand alone, any other run is one token.
Chars(str) ==
    IF str = "" THEN << >>
    ELSE IF str = SPECIAL_REDIRECT_URI
         THEN << "https://app.example/cb?a", "=", "1", "&", "b", "=", "2" >>
         ELSE << str >>

\* '&'.join([f'{k}={v}' for k, v in params.items()]): the names and values
\* are written as they are, nothing is percent-encoded.
RECURSIVE JoinParams(_)
JoinParams(pairs) ==
    IF pairs = << >> THEN << >>
    ELSE Chars(Head(pairs)[1]) \o << "=" >> \o Chars(Head(pairs)[2])
           \o (IF Len(pairs) > 1 THEN << "&" >> \o JoinParams(Tail(pairs))
               ELSE << >>)

\* The URL get_authorization_url builds: query is params.items(), in order;
\* query_string is the text put after AUTH_URL and "?".
get_authorization_url(scope) ==
    LET items == << << "response_type", "code" >>,
                    << "client_id", CLIENT_ID >>,
                    << "redirect_uri", REDIRECT_URI >>,
                    << "scope", scope >> >>
    IN  [ base         |-> AUTH_URL,
          query        |-> items,
          query_string |-> JoinParams(items) ]

\* Variant of exchange_data that posts the default redirect URI, whatever
\* the configured one is.
exchange_data_default_redirect(code) ==
    [ grant_type    |-> "authorization_code",
      code          |-> code,
      client_id     |-> CLIENT_ID,
      client_secret |-> CLIENT_SECRET,
      redirect_uri  |-> DEFAULT_REDIRECT_URI ]

\* The form exchange_code_for_token posts.
exchange_data(code) ==
    [ grant_type    |-> "authorization_code",
      code          |-> code,
      client_id     |-> CLIENT_ID,
      client_secret |-> CLIENT_SECRET,
      redirect_uri  |-> REDIRECT_URI ]

\* Variant of client_credentials_data that sends the grant type of the other flow.
client_credentials_data_wrong_grant ==
    [ grant_type    |-> "authorization_code",
      client_id     |-> CLIENT_ID,
      client_secret |-> CLIENT_SECRET,
      scope         |-> "basic" ]

\* The form client_credentials_flow posts.
client_credentials_data ==
    [ grant_type    |-> "client_credentials",
      client_id     |-> CLIENT_ID,
      client_secret |-> CLIENT_SECRET,
      scope         |-> "basic" ]

\* response.json() on a JSON object: the members are stored into a dict in
\* text order, a repeated name overwriting the earlier value.
RECURSIVE response_json(_)
response_json(pairs) ==
    IF pairs = << >> THEN [ k \in {} |-> "" ]
    ELSE LET n    == Len(pairs)
             d    == response_json(SubSeq(pairs, 1, n - 1))
             last == pairs[n]
         IN  [ k \in DOMAIN d \cup { last[1] } |->
                 IF k = last[1] THEN last[2] ELSE d[k] ]

\* Variant of TokenResult that parses the body whatever the status is.
TokenResult_ignores_status(reply) ==
    IF reply.kind = "exception" THEN None
    ELSE IF reply.body.json THEN Some(response_json(reply.body.pairs))
         ELSE None

\* Variant of TokenResult that keeps only the access token of the payload.
TokenResult_access_token_only(reply) ==
    IF reply.kind = "exception" THEN None
    ELSE IF reply.status = 200
         THEN IF reply.body.json
              THEN LET d == response_json(reply.body.pairs)
                   IN  Some([ k \in DOMAIN d \cap { "access_token" } |-> d[k] ])
              ELSE None
         ELSE None

\* Variant of TokenResult whose except branch returns the error as a dict,
\* return {'error': str(e)}.
TokenResult_error_dict(reply) ==
    IF reply.kind = "exception" THEN Some([ error |-> "exception" ])
    ELSE IF reply.status = 200
         THEN IF reply.body.json THEN Some(response_json(reply.body.pairs))
              ELSE None
         ELSE None

\* What the try block of either exchanger returns for a reply of the endpoint.
TokenResult(reply) ==
    IF reply.kind = "exception" THEN None
    ELSE IF reply.status = 200
         THEN IF reply.body.json THEN Some(response_json(reply.body.pairs))
              ELSE None   \* response.json() raises, caught by except Exception
         ELSE None

\* Python truthiness of an optional dict: neither None nor {}.
TruthyDict(opt) == opt # None /\ DOMAIN opt[1] # {}

-----------------------------------------------------------------------------
(* main *)

\* Variant of MissingCredentials that tests with "and" in place of "or".
MissingCredentials_and == CLIENT_ID = "" /\ CLIENT_SECRET = ""

\* The guard of line 154.
MissingCredentials == CLIENT_ID = "" \/ CLIENT_SECRET = ""

\* Variant of IsAuthorizationCodeChoice that takes the first branch for "2" as well.
IsAuthorizationCodeChoice_or_2(c) == c \in { "1", "2" }

\* The test of line 176.
IsAuthorizationCodeChoice(c) == c = "1"

\* The test of line 222.
IsClientCredentialsChoice(c) == c = "2"

\* Lines 154-164: fail fast when the client id or secret is absent.
CheckCredentials ==
    /\ pc = "start"
    /\ IF MissingCredentials
       THEN pc' = "done" /\ report' = "missing_credentials"
       ELSE pc' = "input" /\ report' = report
    /\ UNCHANGED << non_oauth_vars, CLIENT_ID, CLIENT_SECRET, REDIRECT_URI, auth_code, choice,
                    server_thread, request, response, served, refused,
                    browser, posts, token_reply, token_data, join_result,
                    thread_at_join >>

\* Variant of AuthorizationCodeEntry that opens the browser first and never
\* starts the listener.
AuthorizationCodeEntry_browser_first == "open_browser"

\* Lines 176-185: the first step of the authorization-code branch is to start
\* the thread of the callback listener; the browser comes after it.
AuthorizationCodeEntry == "start_thread"

\* Lines 174-237: read the choice and branch on it.
ReadChoice ==
    /\ pc = "input"
    /\ \E c \in Choices :
         /\ choice' = c
         /\ IF IsAuthorizationCodeChoice(c)
            THEN pc' = AuthorizationCodeEntry /\ report' = report
            ELSE IF IsClientCredentialsChoice(c)
                 THEN pc' = "cc_post" /\ report' = report
                 ELSE pc' = "done" /\ report' = "invalid_choice"
    /\ UNCHANGED << non_oauth_vars, CLIENT_ID, CLIENT_SECRET, REDIRECT_URI, auth_code,
                    server_thread, request, response, served, refused,
                    browser, posts, token_reply, token_data, join_result,
                    thread_at_join >>

\* Lines 183-185: start the daemon thread running start_callback_server.
StartThread ==
    /\ pc = "start_thread"
    /\ server_thread' = "started"
    /\ pc' = "open_browser"
    /\ UNCHANGED << non_oauth_vars, CLIENT_ID, CLIENT_SECRET, REDIRECT_URI, auth_code, choice,
                    request, response, served, refused, browser, posts,
                    token_reply, token_data, join_result, thread_at_join,
                    report >>

\* Lines 188-192: build the authorization URL and open the browser on it.
OpenBrowser ==
    /\ pc = "open_browser"
    /\ browser' = Append(browser, get_authorization_url("basic"))
    /\ pc' = "join"
    /\ UNCHANGED << non_oauth_vars, CLIENT_ID, CLIENT_SECRET, REDIRECT_URI, auth_code, choice,
                    server_thread, request, response, served, refused, posts,
                    token_reply, token_data, join_result, thread_at_join,
                    report >>

\* Variant of ThreadEnded for a join that does not wait for the thread.
ThreadEnded_no_wait == TRUE

\* What join waits for: the thread running start_callback_server has ended.
ThreadEnded == server_thread = "finished"

\* Line 195: join returns because the thread has ended.
JoinFinished ==
    /\ pc = "join"
    /\ ThreadEnded
    /\ join_result' = "finished"
    /\ thread_at_join' = server_thread
    /\ pc' = "check"
    /\ UNCHANGED << non_oauth_vars, CLIENT_ID, CLIENT_SECRET, REDIRECT_URI, auth_code, choice,
                    server_thread, request, response, served, refused,
                    browser, posts, token_reply, token_data, report >>

\* Line 195: join returns because 60 seconds have passed with the thread
\* still alive; join says nothing about which of the two happened.
JoinTimeout ==
    /\ pc = "join"
    /\ ~ ThreadEnded
    /\ join_result' = "timeout"
    /\ thread_at_join' = server_thread
    /\ pc' = "check"
    /\ UNCHANGED << non_oauth_vars, CLIENT_ID, CLIENT_SECRET, REDIRECT_URI, auth_code, choice,
                    server_thread, request, response, served, refused,
                    browser, posts, token_reply, token_data, report >>

\* Variant of AfterAuthorizationFailed that starts the flow again.
AfterAuthorizationFailed_retry == "start_thread"

\* Where main goes after printing "Authorization failed or timed out":
\* it falls off the end of main.
AfterAuthorizationFailed == "done"

\* Lines 197-199 and 219-220: the test of the global auth_code.
CheckAuthCode ==
    /\ pc = "check"
    /\ IF Truthy(auth_code)
       THEN pc' = "exchange" /\ report' = report
       ELSE pc' = AfterAuthorizationFailed /\ report' = "authorization_failed"
    /\ UNCHANGED << non_oauth_vars, CLIENT_ID, CLIENT_SECRET, REDIRECT_URI, auth_code, choice,
                    server_thread, request, response, served, refused,
                    browser, posts, token_reply, token_data, join_result,
                    thread_at_join >>

\* Lines 203, 94-103: exchange_code_for_token(auth_code) issues its POST.
ExchangePost ==
    /\ pc = "exchange"
    /\ posts' = Append(posts, [ url |-> TOKEN_URL,
                                data |-> exchange_data(auth_code[1]) ])
    /\ pc' = "exchange_wait"
    /\ UNCHANGED << non_oauth_vars, CLIENT_ID, CLIENT_SECRET, REDIRECT_URI, auth_code, choice,
                    server_thread, request, response, served, refused,
                    browser, token_reply, token_data, join_result,
                    thread_at_join, report >>

\* Lines 103-115: the POST ends and exchange_code_for_token returns.
ExchangeReply ==
    /\ pc = "exchange_wait"
    /\ \E reply \in TokenReplies :
         /\ token_reply' = reply
         /\ token_data' = TokenResult(reply)
    /\ pc' = "exchange_done"
    /\ UNCHANGED << non_oauth_vars, CLIENT_ID, CLIENT_SECRET, REDIRECT_URI, auth_code, choice,
                    server_thread, request, response, served, refused,
                    browser, posts, join_result, thread_at_join, report >>

\* Lines 205-218: main reports the token, or nothing more.
ExchangeReport ==
    /\ pc = "exchange_done"
    /\ report' = IF TruthyDict(token_data) THEN "token_obtained" ELSE "no_token"
    /\ pc' = "done"
    /\ UNCHANGED << non_oauth_vars, CLIENT_ID, CLIENT_SECRET, REDIRECT_URI, auth_code, choice,
                    server_thread, request, response, served, refused,
                    browser, posts, token_reply, token_data, join_result,
                    thread_at_join >>

\* Lines 224, 125-133: client_credentials_flow() issues its POST.
ClientCredentialsPost ==
    /\ pc = "cc_post"
    /\ posts' = Append(posts, [ url |-> TOKEN_URL,
                                data |-> client_credentials_data ])
    /\ pc' = "cc_wait"
    /\ UNCHANGED << non_oauth_vars, CLIENT_ID, CLIENT_SECRET, REDIRECT_URI, auth_code, choice,
                    server_thread, request, response, served, refused,
                    browser, token_reply, token_data, join_result,
                    thread_at_join, report >>

\* Lines 133-146: the POST ends and client_credentials_flow returns.
ClientCredentialsReply ==
    /\ pc = "cc_wait"
    /\ \E reply \in TokenReplies :
         /\ token_reply' = reply
         /\ token_data' = TokenResult(reply)
    /\ pc' = "cc_done"
    /\ UNCHANGED << non_oauth_vars, CLIENT_ID, CLIENT_SECRET, REDIRECT_URI, auth_code, choice,
                    server_thread, request, response, served, refused,
                    browser, posts, join_result, thread_at_join, report >>

\* Lines 226-234: main reports the token, or nothing more.
ClientCredentialsReport ==
    /\ pc = "cc_done"
    /\ report' = IF TruthyDict(token_data) THEN "token_obtained" ELSE "no_token"
    /\ pc' = "done"
    /\ UNCHANGED << non_oauth_vars, CLIENT_ID, CLIENT_SECRET, REDIRECT_URI, auth_code, choice,
                    server_thread, request, response, served, refused,
                    browser, posts, token_reply, token_data, join_result,
                    thread_at_join >>

-----------------------------------------------------------------------------
(* example_search_and_monitor.py: search_projects *)

SkillIds == { 3, 4, 17 }

Budgets == { None, Some(0), Some(500) }

SkillLists == { None } \cup { Some(l) : l \in SeqUpTo(SkillIds, MaxSkills) }

ProjectIds == { 101, 102 }

\* The ids of the projects of one result page, in order.
ProjectLists == SeqUpTo(ProjectIds, MaxProjects)

\* The JSON a search may answer with: no "result" member (None), a result
\* without "projects" (Some(None)), or a result with its project list.
SearchBodies == { None, Some(None) } \cup { Some(Some(l)) : l \in ProjectLists }

\* What requests.get can produce: a response, or an exception.
SearchReplies == [ kind : { "response" }, status : { 200, 500 }, body : SearchBodies ]
                   \cup { [ kind |-> "exception", status |-> 0, body |-> None ] }

\* d[k] = v on a Python dict: a new key is added, an old one is overwritten.
DictSet(d, k, v) == [ x \in DOMAIN d \cup { k } |-> IF x = k THEN v ELSE d[x] ]

\* Lines 46-47: for skill_id in skills: params['skills[]'] = skill_id
RECURSIVE AddSkills(_, _)
AddSkills(d, list) ==
    IF list = << >> THEN d
    ELSE AddSkills(DictSet(d, "skills[]", Head(list)), Tail(list))

\* Python truthiness of an optional number: neither None nor 0.
TruthyNumber(opt) == opt # None /\ opt[1] # 0

\* Python truthiness of an optional list: neither None nor [].
TruthyList(opt) == opt # None /\ Len(opt[1]) > 0

\* Lines 38-53: the dict params search_projects builds.
search_params(query, skill_list, min_b, max_b, limit) ==
    LET p0 == [ query |-> query, limit |-> limit, offset |-> 0, compact |-> FALSE ]
        p1 == IF TruthyList(skill_list) THEN AddSkills(p0, skill_list[1]) ELSE p0
        p2 == IF TruthyNumber(min_b) THEN DictSet(p1, "min_budget", min_b[1]) ELSE p1
    IN  IF TruthyNumber(max_b) THEN DictSet(p2, "max_budget", max_b[1]) ELSE p2

\* Lines 55-71: the list search_projects returns for a reply.
search_result(reply) ==
    IF reply.kind = "exception" THEN << >>
    ELSE IF reply.status = 200
         THEN IF reply.body = None THEN << >>
              ELSE IF reply.body[1] = None THEN << >>
                   ELSE reply.body[1][1]
         ELSE << >>

\* Lines 38-60: a direct call builds params and sends the request.
SearchCall ==
    /\ search_pc = "idle"
    /\ monitor_pc = "idle"
    /\ params' = search_params("python", skills, min_budget, max_budget, 5)
    /\ search_pc' = "called"
    /\ UNCHANGED << oauth_vars, meta_vars, monitor_vars, skills, min_budget, max_budget,
                    projects >>

\* Lines 62-71: the request ends and search_projects returns.
SearchReturn ==
    /\ search_pc = "called"
    /\ \E reply \in SearchReplies : projects' = search_result(reply)
    /\ search_pc' = "returned"
    /\ UNCHANGED << oauth_vars, meta_vars, monitor_vars, skills, min_budget, max_budget,
                    params >>

SearchIdle ==
    /\ skills = None
    /\ min_budget = None
    /\ max_budget = None
    /\ params = << >>
    /\ search_pc = "idle"
    /\ projects = << >>

-----------------------------------------------------------------------------
(* example_search_and_monitor.py: monitor_projects *)

\* Variant of MaxIterationsReached that stops one iteration early.
MaxIterationsReached_early(iter, max) == max > 0 /\ iter >= max

\* The test of line 136.
MaxIterationsReached(iter, max) == max > 0 /\ iter > max

\* The test of line 158.
SleepsAfterCheck(iter, max) == max = 0 \/ iter < max

\* Variant of NewProjects that never consults the set of seen ids.
NewProjects_all(list, seen) == list

\* Lines 144-149: the projects of a result that are new, in order.
RECURSIVE NewProjects(_, _)
NewProjects(list, seen) ==
    IF list = << >> THEN << >>
    ELSE IF Head(list) \in seen THEN NewProjects(Tail(list), seen)
         ELSE << Head(list) >> \o NewProjects(Tail(list), seen \cup { Head(list) })

\* Lines 134-159, the iteration that checks: search, report what is new,
\* then sleep unless this was the last check.
MonitorCheck ==
    /\ monitor_pc = "loop"
    /\ max_iterations = 0 => iteration < MaxChecks
    /\ ~ MaxIterationsReached(iteration + 1, max_iterations)
    /\ iteration' = iteration + 1
    /\ params' = search_params("python", None, None, None, 10)
    /\ \E reply \in SearchReplies :
         LET found == search_result(reply)
             fresh == NewProjects(found, seen_projects)
         IN  /\ projects' = found
             /\ seen_projects' = seen_projects \cup { fresh[i] : i \in DOMAIN fresh }
             /\ printed' = printed \o fresh
    /\ checks' = checks + 1
    /\ IF SleepsAfterCheck(iteration + 1, max_iterations)
       THEN monitor_pc' = "sleeping" /\ sleeps' = sleeps + 1
       ELSE monitor_pc' = "loop" /\ sleeps' = sleeps
    /\ UNCHANGED << oauth_vars, meta_vars, skills, min_budget, max_budget, search_pc,
                    max_iterations >>

\* Line 159: time.sleep(interval) returns.
MonitorWake ==
    /\ monitor_pc = "sleeping"
    /\ monitor_pc' = "loop"
    /\ UNCHANGED << oauth_vars, meta_vars, search_vars, max_iterations, iteration,
                    seen_projects, printed, checks, sleeps >>

\* Lines 134-138, the iteration that finds the maximum passed and breaks.
MonitorStop ==
    /\ monitor_pc = "loop"
    /\ MaxIterationsReached(iteration + 1, max_iterations)
    /\ iteration' = iteration + 1
    /\ monitor_pc' = "stopped"
    /\ UNCHANGED << oauth_vars, meta_vars, search_vars, max_iterations, seen_projects,
                    printed, checks, sleeps >>

\* Lines 161-162: Ctrl+C while the monitor runs.
MonitorInterrupt ==
    /\ monitor_pc \in { "loop", "sleeping" }
    /\ monitor_pc' = "interrupted"
    /\ UNCHANGED << oauth_vars, meta_vars, search_vars, max_iterations, iteration,
                    seen_projects, printed, checks, sleeps >>

MonitorIdle ==
    /\ max_iterations = 0
    /\ iteration = 0
    /\ seen_projects = {}
    /\ printed = << >>
    /\ checks = 0
    /\ sleeps = 0
    /\ monitor_pc = "idle"

-----------------------------------------------------------------------------
(* sponsor-example-scripts/meta/src/pipeboard_client.py: _call_mcp_tool *)

\* What os.getenv gives for a variable: None, the empty string, or a value.
EnvTokens == { None, Some(""), Some("tok_1") }

EnvAccounts == { None, Some(""), Some("act_1"), Some("act_2") }

EnvPages == { None, Some(""), Some("page_1") }

\* os.getenv("AD_CTA_URL", "https://example.com")
CtaUrls == { "https://example.com", "https://shop.example/signup" }

\* Python truthiness of an optional string: neither None nor "".
TruthyString(opt) == opt # None /\ opt[1] # ""

\* d.get(k) on a Python dict: None when the key is absent.
DictGet(d, k) == IF k \in DOMAIN d THEN Some(d[k]) ELSE None

\* d.get(k, default) on a Python dict.
DictGetDefault(d, k, default) == IF k \in DOMAIN d THEN d[k] ELSE default

\* The texts a tool may put in structuredContent.result.
TEXT_EMPTY == "{}"

TEXT_ID == "{\"id\": \"101\"}"

TEXT_ALT ==
    "{\"campaign_id\": \"c7\", \"adset_id\": \"s7\", \"creative_id\": \"r7\", \"ad_id\": \"a7\", \"image_hash\": \"h7\"}"

TEXT_IMAGES == "{\"images\": {\"bytes\": {\"hash\": \"h1\"}}}"

TEXT_NO_DATA == "{\"data\": []}"

TEXT_ACCOUNT ==
    "{\"data\": [{\"id\": \"act_1\", \"name\": \"Main\", \"account_status\": 1, \"currency\": \"USD\", \"amount_spent\": \"1200\"}]}"

TEXT_ACCOUNT_BAD_AMOUNT ==
    "{\"data\": [{\"id\": \"act_1\", \"name\": \"Main\", \"account_status\": 1, \"currency\": \"USD\", \"amount_spent\": \"n/a\"}]}"

TEXT_LIST == "[]"

TEXT_NOT_JSON == "upload accepted"

JsonTexts == { TEXT_EMPTY, TEXT_ID, TEXT_ALT, TEXT_IMAGES, TEXT_NO_DATA,
               TEXT_ACCOUNT, TEXT_ACCOUNT_BAD_AMOUNT, TEXT_LIST, TEXT_NOT_JSON }

\* One account of a get_ad_accounts answer.
Account(amount) ==
    [ id |-> "act_1", name |-> "Main", account_status |-> 1, currency |-> "USD",
      amount_spent |-> amount ]

\* Line 86: json.loads.  A JSON object becomes [dict |-> d], a JSON array
\* [list |-> l]; None stands for json.JSONDecodeError.
json_loads(text) ==
    CASE text = TEXT_EMPTY -> Some([ dict |-> << >> ])
      [] text = TEXT_ID -> Some([ dict |-> [ id |-> "101" ] ])
      [] text = TEXT_ALT ->
           Some([ dict |-> [ campaign_id |-> "c7", adset_id |-> "s7",
                             creative_id |-> "r7", ad_id |-> "a7",
                             image_hash |-> "h7" ] ])
      [] text = TEXT_IMAGES ->
           Some([ dict |-> [ images |-> [ bytes |-> [ hash |-> "h1" ] ] ] ])
      [] text = TEXT_NO_DATA -> Some([ dict |-> [ data |-> << >> ] ])
      [] text = TEXT_ACCOUNT -> Some([ dict |-> [ data |-> << Account("1200") >> ] ])
      [] text = TEXT_ACCOUNT_BAD_AMOUNT ->
           Some([ dict |-> [ data |-> << Account("n/a") >> ] ])
      [] text = TEXT_LIST -> Some([ list |-> << >> ])
      [] OTHER -> None

\* The JSON-RPC bodies the endpoint may answer with: an error, a tool error,
\* a result without structuredContent, or a result carrying a text.
McpBodies ==
    { [ error |-> [ code |-> -32602, message |-> "Invalid params" ] ],
      [ result |-> [ isError |-> TRUE,
                     content |-> << [ type |-> "text", text |-> "denied" ] >> ] ],
      [ result |-> [ isError |-> FALSE ] ] }
    \cup { [ result |-> [ structuredContent |-> [ result |-> t ] ] ] : t \in JsonTexts }

\* What requests.post can produce: an exception, an error status, a body
\* that is not JSON (None), or a JSON-RPC body.
McpReplies ==
    { [ kind |-> "exception", status |-> 0, body |-> None ],
      [ kind |-> "response", status |-> 500, body |-> None ],
      [ kind |-> "response", status |-> 200, body |-> None ] }
    \cup { [ kind |-> "response", status |-> 200, body |-> Some(b) ] : b \in McpBodies }

\* How a call ends: it raises (kind names the cause) or returns a value.
Raised(kind) == [ kind |-> kind, value |-> None ]

Returned(v) == [ kind |-> "ok", value |-> Some(v) ]

HasRaised(out) == out.kind # "ok"

\* Lines 46-54: the JSON-RPC 2.0 payload.
mcp_payload(id, tool_name, arguments) ==
    [ jsonrpc |-> "2.0", id |-> id, method |-> "tools/call",
      params |-> [ name |-> tool_name, arguments |-> arguments ] ]

\* Variant of NextRequestId that leaves the id as it is.
NextRequestId_same(id) == id

\* Line 43: self._request_id += 1
NextRequestId(id) == id + 1

\* Lines 56-89: what _call_mcp_tool makes of the reply.
mcp_outcome(reply) ==
    IF reply.kind = "exception" THEN Raised("network")
    ELSE IF reply.status >= 400 THEN Raised("http")
    ELSE IF reply.body = None THEN Raised("json")
    ELSE LET result == reply.body[1]
         IN  IF "error" \in DOMAIN result THEN Raised("rpc_error")
             ELSE LET mcp_result == DictGetDefault(result, "result", << >>)
                      structured == DictGetDefault(mcp_result, "structuredContent", << >>)
                      result_str == DictGetDefault(structured, "result", "{}")
                      parsed == json_loads(result_str)
                  IN  IF DictGetDefault(mcp_result, "isError", FALSE)
                      THEN Raised("tool_error")
                      ELSE IF parsed = None THEN Returned([ dict |-> mcp_result ])
                           ELSE Returned(parsed[1])

\* Lines 43-61: _call_mcp_tool takes the next id and posts the payload; the
\* id is taken before anything can fail.
PostToolCall(tool_name, arguments, out) ==
    /\ request_id' = NextRequestId(request_id)
    /\ calls' = Append(calls, mcp_payload(NextRequestId(request_id), tool_name, arguments))
    /\ outcomes' = Append(outcomes, out.kind)

-----------------------------------------------------------------------------
(* pipeboard_client.py: the methods of PipeboardMetaAdsClient *)

\* The days datetime.now() may fall on, as day numbers.
Days == { 20 }

\* strftime("%Y-%m-%d") of a day.
FormatDate(day) == [ date |-> day ]

\* strftime("%Y-%m-%dT09:00:00-08:00") of a day.
FormatStart(day) == [ date |-> day, time |-> "09:00:00-08:00" ]

\* a or b on two optional strings.
Or(a, b) == IF TruthyString(a) THEN a ELSE b

\* What a method hands back to its caller: it raises, or returns a value.
MethodRaised == [ raised |-> TRUE, value |-> None ]

MethodReturned(v) == [ raised |-> FALSE, value |-> v ]

\* Lines 102-106: the arguments of the upload_ad_image tool call.
upload_ad_image(account, image_url, filename) ==
    [ account_id |-> account, image_url |-> image_url, filename |-> filename ]

\* Lines 110-112: the hash upload_ad_image returns.  A result that is not a
\* dict has no get, and a dict "images" without bytes.hash raises KeyError.
upload_ad_image_result(out) ==
    IF HasRaised(out) THEN MethodRaised
    ELSE LET result == out.value[1]
         IN  IF "dict" \notin DOMAIN result THEN MethodRaised
             ELSE IF "images" \in DOMAIN result.dict
                  THEN LET images == result.dict["images"]
                       IN  IF "bytes" \in DOMAIN images /\ "hash" \in DOMAIN images["bytes"]
                           THEN MethodReturned(Some(images["bytes"]["hash"]))
                           ELSE MethodRaised
                  ELSE MethodReturned(Or(DictGet(result.dict, "hash"),
                                         DictGet(result.dict, "image_hash")))

\* Lines 140, 186, 234, 263: return result.get("id") or result.get(alt).
IdResult(out, alt) ==
    IF HasRaised(out) THEN MethodRaised
    ELSE LET result == out.value[1]
         IN  IF "dict" \notin DOMAIN result THEN MethodRaised
             ELSE MethodReturned(Or(DictGet(result.dict, "id"),
                                    DictGet(result.dict, alt)))

\* Variant of create_campaign that creates the campaign active.
create_campaign_active(account, name, objective, status) ==
    [ account_id |-> account, name |-> name, objective |-> objective,
      status |-> "ACTIVE", special_ad_categories |-> << "NONE" >>,
      buying_type |-> "AUCTION" ]

\* Lines 131-138: the arguments of the create_campaign tool call.
create_campaign(account, name, objective, status) ==
    [ account_id |-> account, name |-> name, objective |-> objective,
      status |-> status, special_ad_categories |-> << "NONE" >>,
      buying_type |-> "AUCTION" ]

\* Lines 167-184: the arguments of the create_adset tool call; today is the
\* day datetime.now() falls on.
create_adset(account, campaign, name, daily_budget, targeting, start_time, end_time, status, today) ==
    [ account_id |-> account,
      campaign_id |-> campaign,
      name |-> name,
      status |-> status,
      daily_budget |-> daily_budget,
      billing_event |-> "IMPRESSIONS",
      optimization_goal |-> "LEAD_GENERATION",
      bid_strategy |-> "LOWEST_COST_WITHOUT_CAP",
      start_time |-> IF start_time = None THEN FormatStart(today + 1) ELSE start_time[1],
      end_time |-> IF end_time = None THEN FormatStart(today + 4) ELSE end_time[1],
      targeting |-> targeting ]

\* Lines 215-232: the arguments of the create_ad_creative tool call.
create_ad_creative(account, name, page, hash, message, headline, link, call_to_action_type, status) ==
    [ account_id |-> account,
      name |-> name,
      object_story_spec |->
          [ page_id |-> page,
            link_data |-> [ message |-> message, name |-> headline, link |-> link,
                            image_hash |-> hash,
                            call_to_action |-> [ type |-> call_to_action_type,
                                                 value |-> [ link |-> link ] ] ] ],
      status |-> status ]

\* Lines 255-261: the arguments of the create_ad tool call.
create_ad(account, adset, creative, name, status) ==
    [ account_id |-> account, adset_id |-> adset, name |-> name,
      creative |-> [ creative_id |-> creative ], status |-> status ]

\* The metrics get_insights asks for when the caller names none (lines 295-300).
DEFAULT_FIELDS ==
    << "ad_id", "ad_name", "adset_id", "adset_name", "campaign_id",
       "campaign_name", "impressions", "clicks", "actions", "spend", "ctr",
       "cpm", "cpc" >>

\* Lines 294-300: the local fields after the default is applied.
get_insights_fields(wanted) == IF TruthyList(wanted) THEN wanted[1] ELSE DEFAULT_FIELDS

\* Lines 286-310: the arguments of the get_insights tool call.
get_insights(account, level, time_range, filtering, wanted, limit, today) ==
    LET range == IF time_range = None
                 THEN [ since |-> FormatDate(today - 7), until |-> FormatDate(today) ]
                 ELSE time_range[1]
        arguments == [ object_id |-> account, level |-> level, time_range |-> range,
                       limit |-> limit ]
    IN  IF TruthyList(filtering) THEN DictSet(arguments, "filtering", filtering[1])
        ELSE arguments

\* Lines 315-317: what get_insights returns: the "data" of a dict (or the dict
\* itself in a list), anything else as it is.
get_insights_result(out) ==
    IF HasRaised(out) THEN MethodRaised
    ELSE LET result == out.value[1]
         IN  IF "dict" \in DOMAIN result
             THEN MethodReturned(Some([ list |-> DictGetDefault(result.dict, "data",
                                                               << result.dict >>) ]))
             ELSE MethodReturned(Some(result))

-----------------------------------------------------------------------------
(* pipeboard_client.py: one client, its methods called directly *)

\* The inputs of the direct calls: the default level and time range, a
\* filter or none, and a list of fields, an empty list or none.
Levels == { "ad" }

TimeRanges == { None }

Filterings ==
    { None, Some(<< [ field |-> "ad.id", operator |-> "IN", value |-> << "a7" >> ] >>) }

FieldLists == { None, Some(<< >>), Some(<< "spend", "clicks" >>) }

\* Line 118: the default of the argument status.
CampaignStatuses == { "PAUSED" }

\* No script of sponsor-example-scripts/meta is running and no client exists.
MetaIdle ==
    /\ api_token = None
    /\ ad_account_id = None
    /\ page_id = None
    /\ cta_url = "https://example.com"
    /\ request_id = 0
    /\ calls = << >>
    /\ outcomes = << >>
    /\ fields = None
    /\ returned = None
    /\ image_hash = None
    /\ campaign_id = None
    /\ adset_id = None
    /\ creative_id = None
    /\ ad_id = None
    /\ post_printed = << >>
    /\ post_pc = "idle"
    /\ target_account = None
    /\ verified = None
    /\ verify_pc = "idle"

\* Lines 265-317: a call of get_insights.
GetInsights ==
    /\ Len(calls) < MaxCalls
    /\ \E level \in Levels, time_range \in TimeRanges, filtering \in Filterings,
          wanted \in FieldLists, today \in Days, reply \in McpReplies :
         LET out == mcp_outcome(reply)
         IN  /\ fields' = Some(get_insights_fields(wanted))
             /\ PostToolCall("get_insights",
                             get_insights(ad_account_id[1], level, time_range,
                                          filtering, wanted, 100, today),
                             out)
             /\ returned' = Some(get_insights_result(out))
    /\ UNCHANGED << oauth_vars, search_vars, monitor_vars, post_vars, verify_vars,
                    api_token, ad_account_id, page_id, cta_url >>

\* Lines 114-140: a call of create_campaign.
CreateCampaign ==
    /\ Len(calls) < MaxCalls
    /\ \E status \in CampaignStatuses, reply \in McpReplies :
         LET out == mcp_outcome(reply)
         IN  /\ PostToolCall("create_campaign",
                             create_campaign(ad_account_id[1], "Campaign",
                                             "OUTCOME_LEADS", status),
                             out)
             /\ returned' = Some(IdResult(out, "campaign_id"))
    /\ UNCHANGED << oauth_vars, search_vars, monitor_vars, post_vars, verify_vars,
                    api_token, ad_account_id, page_id, cta_url, fields >>

-----------------------------------------------------------------------------
(* post_ad_example.py *)

\* Lines 41-54: the targeting specification.
create_targeting_spec(age_min, age_max, genders, countries, interests) ==
    LET spec == [ age_min |-> age_min,
                  age_max |-> age_max,
                  genders |-> genders,
                  geo_locations |-> [ countries |-> countries ],
                  publisher_platforms |-> << "facebook", "instagram" >>,
                  facebook_positions |-> << "feed", "marketplace" >>,
                  instagram_positions |-> << "feed", "story", "reels" >> ]
    IN  IF TruthyList(interests)
        THEN DictSet(spec, "detailed_targeting", [ interests |-> interests[1] ])
        ELSE spec

\* Lines 103-112: the targeting main asks for.
PostTargeting ==
    create_targeting_spec(28, 44, << 2 >>, << "US", "CA" >>,
                          Some(<< [ id |-> "6003139266461", name |-> "Journaling" ],
                                  [ id |-> "6003462608892", name |-> "Self-care" ] >>))

\* Line 64: not all([api_token, ad_account_id, page_id])
PostMissingEnvironment ==
    ~ (TruthyString(api_token) /\ TruthyString(ad_account_id) /\ TruthyString(page_id))

\* Variant of PostNextPc that goes on to the next step after an exception.
PostNextPc_ignore_errors(step, raised) ==
    CASE step = "upload" -> "campaign"
      [] step = "campaign" -> "adset"
      [] step = "adset" -> "creative"
      [] step = "creative" -> "ad"
      [] OTHER -> "done"

\* Lines 76-159: every step sits in its own try; its except prints the error
\* and returns, otherwise main goes on to the next step.
PostNextPc(step, raised) ==
    IF raised THEN "done"
    ELSE CASE step = "upload" -> "campaign"
           [] step = "campaign" -> "adset"
           [] step = "adset" -> "creative"
           [] step = "creative" -> "ad"
           [] OTHER -> "done"

\* What a step prints: its success line or its error line.
PostPrints(raised) == IF raised THEN "error" ELSE "ok"

\* Lines 59-72: read the environment, return when a variable is missing,
\* otherwise construct the client.
PostCheckEnvironment ==
    /\ post_pc = "start"
    /\ IF PostMissingEnvironment
       THEN post_pc' = "done" /\ post_printed' = << "missing_environment" >>
       ELSE post_pc' = "upload" /\ post_printed' = post_printed
    /\ request_id' = 0
    /\ UNCHANGED << oauth_vars, search_vars, monitor_vars, verify_vars, api_token,
                    ad_account_id, page_id, cta_url, calls, outcomes, fields,
                    returned, image_hash, campaign_id, adset_id, creative_id,
                    ad_id >>

\* Lines 74-83: step 1, upload the image.
PostUploadImage ==
    /\ post_pc = "upload"
    /\ \E reply \in McpReplies :
         LET out == mcp_outcome(reply)
             r == upload_ad_image_result(out)
         IN  /\ PostToolCall("upload_ad_image",
                             upload_ad_image(ad_account_id[1],
                                             "https://example.com/your-ad-image.png",
                                             "ad-creative-1.png"),
                             out)
             /\ image_hash' = IF r.raised THEN image_hash ELSE r.value
             /\ post_printed' = Append(post_printed, PostPrints(r.raised))
             /\ post_pc' = PostNextPc("upload", r.raised)
    /\ UNCHANGED << oauth_vars, search_vars, monitor_vars, verify_vars, api_token,
                    ad_account_id, page_id, cta_url, fields, returned,
                    campaign_id, adset_id, creative_id, ad_id >>

\* Lines 85-97: step 2, create the campaign.
PostCreateCampaign ==
    /\ post_pc = "campaign"
    /\ \E reply \in McpReplies :
         LET out == mcp_outcome(reply)
             r == IdResult(out, "campaign_id")
         IN  /\ PostToolCall("create_campaign",
                             create_campaign(ad_account_id[1],
                                             "Test Campaign - Lead Generation",
                                             "OUTCOME_LEADS", "PAUSED"),
                             out)
             /\ campaign_id' = IF r.raised THEN campaign_id ELSE r.value
             /\ post_printed' = Append(post_printed, PostPrints(r.raised))
             /\ post_pc' = PostNextPc("campaign", r.raised)
    /\ UNCHANGED << oauth_vars, search_vars, monitor_vars, verify_vars, api_token,
                    ad_account_id, page_id, cta_url, fields, returned,
                    image_hash, adset_id, creative_id, ad_id >>

\* Lines 99-125: step 3, create the ad set.
PostCreateAdSet ==
    /\ post_pc = "adset"
    /\ \E reply \in McpReplies, today \in Days :
         LET out == mcp_outcome(reply)
             r == IdResult(out, "adset_id")
         IN  /\ PostToolCall("create_adset",
                             create_adset(ad_account_id[1], campaign_id,
                                          "Test Ad Set - Women 28-44 US/CA", 1500,
                                          PostTargeting, None, None, "PAUSED", today),
                             out)
             /\ adset_id' = IF r.raised THEN adset_id ELSE r.value
             /\ post_printed' = Append(post_printed, PostPrints(r.raised))
             /\ post_pc' = PostNextPc("adset", r.raised)
    /\ UNCHANGED << oauth_vars, search_vars, monitor_vars, verify_vars, api_token,
                    ad_account_id, page_id, cta_url, fields, returned,
                    image_hash, campaign_id, creative_id, ad_id >>

\* Lines 127-144: step 4, create the creative.
PostCreateCreative ==
    /\ post_pc = "creative"
    /\ \E reply \in McpReplies :
         LET out == mcp_outcome(reply)
             r == IdResult(out, "creative_id")
         IN  /\ PostToolCall("create_ad_creative",
                             create_ad_creative(ad_account_id[1], "Test Creative 1",
                                                page_id[1], image_hash,
                                                "Transform your daily routine with our innovative solution. Join thousands who have already discovered the difference.",
                                                "Start Your Journey Today", cta_url,
                                                "SIGN_UP", "PAUSED"),
                             out)
             /\ creative_id' = IF r.raised THEN creative_id ELSE r.value
             /\ post_printed' = Append(post_printed, PostPrints(r.raised))
             /\ post_pc' = PostNextPc("creative", r.raised)
    /\ UNCHANGED << oauth_vars, search_vars, monitor_vars, verify_vars, api_token,
                    ad_account_id, page_id, cta_url, fields, returned,
                    image_hash, campaign_id, adset_id, ad_id >>

\* Lines 146-171: step 5, create the ad, then print the summary.
PostCreateAd ==
    /\ post_pc = "ad"
    /\ \E reply \in McpReplies :
         LET out == mcp_outcome(reply)
             r == IdResult(out, "ad_id")
         IN  /\ PostToolCall("create_ad",
                             create_ad(ad_account_id[1], adset_id, creative_id,
                                       "Test Ad 1", "PAUSED"),
                             out)
             /\ ad_id' = IF r.raised THEN ad_id ELSE r.value
             /\ post_printed' = IF r.raised THEN Append(post_printed, "error")
                                ELSE post_printed \o << "ok", "complete" >>
             /\ post_pc' = PostNextPc("ad", r.raised)
    /\ UNCHANGED << oauth_vars, search_vars, monitor_vars, verify_vars, api_token,
                    ad_account_id, page_id, cta_url, fields, returned,
                    image_hash, campaign_id, adset_id, creative_id >>

-----------------------------------------------------------------------------
(* verify_setup.py *)

\* float(text): None stands for ValueError.
float_of(text) ==
    CASE text = "1200" -> Some(1200)
      [] text = "0" -> Some(0)
      [] OTHER -> None

\* Lines 59-77: look for the target account in the answer and print it.  A
\* result that is not a dict has no get; the amount spent of the target
\* account must be a number.
verify_accounts(out, wanted) ==
    IF HasRaised(out) THEN MethodRaised
    ELSE LET accounts == out.value[1]
         IN  IF "dict" \notin DOMAIN accounts THEN MethodRaised
             ELSE LET account_list == DictGetDefault(accounts.dict, "data", << >>)
                      matching == { i \in DOMAIN account_list :
                                      DictGet(account_list[i], "id") = Some(wanted) }
                      last == CHOOSE i \in matching : \A j \in matching : j <= i
                  IN  IF matching = {} THEN MethodReturned(None)
                      ELSE IF float_of(DictGetDefault(account_list[last],
                                                      "amount_spent", "0")) = None
                           THEN MethodRaised
                           ELSE MethodReturned(Some(account_list[last]))

\* Lines 90-100: list the campaigns of the answer.
verify_campaigns(out) ==
    IF HasRaised(out) THEN MethodRaised
    ELSE LET campaigns == out.value[1]
         IN  IF "dict" \notin DOMAIN campaigns THEN MethodRaised
             ELSE MethodReturned(Some(DictGetDefault(campaigns.dict, "data", << >>)))

\* Variant of VerifyAfterCampaigns that fails when the campaigns cannot be
\* fetched.
VerifyAfterCampaigns_strict(raised) == ~ raised

\* Lines 102-119: the except of step 4 only prints a warning; main returns
\* True after it either way.
VerifyAfterCampaigns(raised) == TRUE

\* Lines 19-53: read the environment, return False when the token or the
\* account id is missing, otherwise construct the client.
VerifyCheckEnvironment ==
    /\ verify_pc = "start"
    /\ IF ~ TruthyString(api_token) \/ ~ TruthyString(ad_account_id)
       THEN verify_pc' = "done" /\ verified' = Some(FALSE)
       ELSE verify_pc' = "accounts" /\ verified' = verified
    /\ request_id' = 0
    /\ UNCHANGED << oauth_vars, search_vars, monitor_vars, post_vars, api_token,
                    ad_account_id, page_id, cta_url, calls, outcomes, fields,
                    returned, target_account >>

\* Lines 55-81: step 3, fetch the ad accounts; any exception returns False.
VerifyAccounts ==
    /\ verify_pc = "accounts"
    /\ \E reply \in McpReplies :
         LET out == mcp_outcome(reply)
             r == verify_accounts(out, ad_account_id[1])
         IN  /\ PostToolCall("get_ad_accounts", << >>, out)
             /\ target_account' = IF r.raised THEN target_account ELSE r.value
             /\ IF r.raised
                THEN verify_pc' = "done" /\ verified' = Some(FALSE)
                ELSE verify_pc' = "campaigns" /\ verified' = verified
    /\ UNCHANGED << oauth_vars, search_vars, monitor_vars, post_vars, api_token,
                    ad_account_id, page_id, cta_url, fields, returned >>

\* Lines 83-119: step 4, fetch the campaigns, then print the summary and
\* return.
VerifyCampaigns ==
    /\ verify_pc = "campaigns"
    /\ \E reply \in McpReplies :
         LET out == mcp_outcome(reply)
             r == verify_campaigns(out)
         IN  /\ PostToolCall("get_campaigns",
                             [ account_id |-> ad_account_id[1], limit |-> 5 ], out)
             /\ verified' = Some(VerifyAfterCampaigns(r.raised))
    /\ verify_pc' = "done"
    /\ UNCHANGED << oauth_vars, search_vars, monitor_vars, post_vars, api_token,
                    ad_account_id, page_id, cta_url, fields, returned,
                    target_account >>

-----------------------------------------------------------------------------
(* The process *)

Init ==
    /\ SearchIdle
    /\ MonitorIdle
    /\ MetaIdle
    /\ CLIENT_ID \in ClientIds
    /\ CLIENT_SECRET \in ClientSecrets
    /\ REDIRECT_URI \in RedirectUris
    /\ auth_code = None
    /\ pc = "start"
    /\ choice = ""
    /\ server_thread = "unstarted"
    /\ request = NoRequest
    /\ response = NoResponse
    /\ served = 0
    /\ refused = 0
    /\ browser = << >>
    /\ posts = << >>
    /\ token_reply = NoReply
    /\ token_data = None
    /\ join_result = "none"
    /\ thread_at_join = "none"
    /\ report = "none"

Next ==
    \/ CheckCredentials
    \/ ReadChoice
    \/ StartThread
    \/ OpenBrowser
    \/ JoinFinished
    \/ JoinTimeout
    \/ CheckAuthCode
    \/ ExchangePost
    \/ ExchangeReply
    \/ ExchangeReport
    \/ ClientCredentialsPost
    \/ ClientCredentialsReply
    \/ ClientCredentialsReport
    \/ ServerBind
    \/ ServerBindFail
    \/ ServerAccept
    \/ ServerHandle
    \/ ServerReturn
    \/ LateRequest

Spec == Init /\ [][Next]_vars

-----------------------------------------------------------------------------
(* The calls of example_search_and_monitor.py *)

\* oauth2_flow.py is not running.
OAuthIdle ==
    /\ CLIENT_ID = ""
    /\ CLIENT_SECRET = ""
    /\ REDIRECT_URI = DEFAULT_REDIRECT_URI
    /\ auth_code = None
    /\ pc = "start"
    /\ choice = ""
    /\ server_thread = "unstarted"
    /\ request = NoRequest
    /\ response = NoResponse
    /\ served = 0
    /\ refused = 0
    /\ browser = << >>
    /\ posts = << >>
    /\ token_reply = NoReply
    /\ token_data = None
    /\ join_result = "none"
    /\ thread_at_join = "none"
    /\ report = "none"

\* A call search_projects("python", skills, min_budget, max_budget, limit=5).
SearchInit ==
    /\ OAuthIdle
    /\ MonitorIdle
    /\ MetaIdle
    /\ skills \in SkillLists
    /\ min_budget \in Budgets
    /\ max_budget \in Budgets
    /\ params = << >>
    /\ search_pc = "idle"
    /\ projects = << >>

SearchNext ==
    \/ SearchCall
    \/ SearchReturn

SearchSpec == SearchInit /\ [][SearchNext]_vars

\* A call monitor_projects("python", interval, max_iterations).
MonitorInit ==
    /\ OAuthIdle
    /\ SearchIdle
    /\ MetaIdle
    /\ max_iterations \in 0..MaxIterations
    /\ iteration = 0
    /\ seen_projects = {}
    /\ printed = << >>
    /\ checks = 0
    /\ sleeps = 0
    /\ monitor_pc = "loop"

MonitorNext ==
    \/ MonitorCheck
    \/ MonitorWake
    \/ MonitorStop
    \/ MonitorInterrupt

MonitorSpec == MonitorInit /\ [][MonitorNext]_vars

-----------------------------------------------------------------------------
(* The calls of sponsor-example-scripts/meta *)

\* A PipeboardMetaAdsClient(api_token, ad_account_id) whose methods are called.
ClientInit ==
    /\ OAuthIdle
    /\ SearchIdle
    /\ MonitorIdle
    /\ api_token = Some("tok_1")
    /\ ad_account_id = Some("act_1")
    /\ page_id = None
    /\ cta_url = "https://example.com"
    /\ request_id = 0
    /\ calls = << >>
    /\ outcomes = << >>
    /\ fields = None
    /\ returned = None
    /\ image_hash = None
    /\ campaign_id = None
    /\ adset_id = None
    /\ creative_id = None
    /\ ad_id = None
    /\ post_printed = << >>
    /\ post_pc = "idle"
    /\ target_account = None
    /\ verified = None
    /\ verify_pc = "idle"

ClientNext ==
    \/ GetInsights
    \/ CreateCampaign

ClientSpec == ClientInit /\ [][ClientNext]_vars

\* A run of post_ad_example.py.
PostAdInit ==
    /\ OAuthIdle
    /\ SearchIdle
    /\ MonitorIdle
    /\ api_token \in EnvTokens
    /\ ad_account_id \in EnvAccounts
    /\ page_id \in EnvPages
    /\ cta_url \in CtaUrls
    /\ request_id = 0
    /\ calls = << >>
    /\ outcomes = << >>
    /\ fields = None
    /\ returned = None
    /\ image_hash = None
    /\ campaign_id = None
    /\ adset_id = None
    /\ creative_id = None
    /\ ad_id = None
    /\ post_printed = << >>
    /\ post_pc = "start"
    /\ target_account = None
    /\ verified = None
    /\ verify_pc = "idle"

PostAdNext ==
    \/ PostCheckEnvironment
    \/ PostUploadImage
    \/ PostCreateCampaign
    \/ PostCreateAdSet
    \/ PostCreateCreative
    \/ PostCreateAd

PostAdSpec == PostAdInit /\ [][PostAdNext]_vars

\* A run of verify_setup.py.
VerifyInit ==
    /\ OAuthIdle
    /\ SearchIdle
    /\ MonitorIdle
    /\ api_token \in EnvTokens
    /\ ad_account_id \in EnvAccounts
    /\ page_id \in EnvPages
    /\ cta_url = "https://example.com"
    /\ request_id = 0
    /\ calls = << >>
    /\ outcomes = << >>
    /\ fields = None
    /\ returned = None
    /\ image_hash = None
    /\ campaign_id = None
    /\ adset_id = None
    /\ creative_id = None
    /\ ad_id = None
    /\ post_printed = << >>
    /\ post_pc = "idle"
    /\ target_account = None
    /\ verified = None
    /\ verify_pc = "start"

VerifyNext ==
    \/ VerifyCheckEnvironment
    \/ VerifyAccounts
    \/ VerifyCampaigns

VerifySpec == VerifyInit /\ [][VerifyNext]_vars

-----------------------------------------------------------------------------
(* Vocabulary of the properties *)

\* The query string carries a parameter called name (whatever its value).
HasParam(query, name) == \E i \in DOMAIN query : query[i][1] = name

\* The query string carries a parameter called name with a non-empty value.
HasValue(query, name) ==
    \E i \in DOMAIN query : query[i][1] = name /\ query[i][2] # << >>

\* The raw value of the first parameter called name.
FirstRaw(query, name) ==
    LET i == CHOOSE i \in DOMAIN query :
                 /\ query[i][1] = name
                 /\ \A j \in 1..(i - 1) : query[j][1] # name
    IN  query[i][2]

\* The raw value of the first parameter called name whose value is not empty.
FirstNonEmptyRaw(query, name) ==
    LET i == CHOOSE i \in DOMAIN query :
                 /\ query[i][1] = name /\ query[i][2] # << >>
                 /\ \A j \in 1..(i - 1) :
                        ~ (query[j][1] = name /\ query[j][2] # << >>)
    IN  query[i][2]

\* The handler has just served the request held in request.
JustServed == server_thread = "responded"

\* The listener has served its request and accepts nothing more.
ListenerStopped == served = 1 /\ server_thread \in { "responded", "finished" }

\* dict is exactly the JSON object written as pairs: the same names, and for
\* each name the value of its last member.
IsPayloadOf(dict, pairs) ==
    /\ DOMAIN dict = { pairs[i][1] : i \in DOMAIN pairs }
    /\ \A i \in DOMAIN pairs :
          (\A j \in (i + 1)..Len(pairs) : pairs[j][1] # pairs[i][1])
              => dict[pairs[i][1]] = pairs[i][2]

-----------------------------------------------------------------------------
(* Properties *)

\* C1: the listener serves at most one request, and once that request has
\* been handled no later step (no later request) changes the captured code.
C1_OneRequestOnly ==
    /\ [](served <= 1)
    /\ [][served >= 1 => auth_code' = auth_code]_vars

\* C1 witness: a request was served and captured a code, and a later request
\* arrived without being served.
C1_Witness == served = 1 /\ auth_code # None /\ refused >= 1

\* C2 as stated: every GET callback whose query string carries a code
\* parameter gets HTTP 200, the captured code is the first value of the
\* parameter, and the listener accepts nothing afterward.
C2_AnyCodeValueCaptured ==
    (JustServed /\ request.method = "GET" /\ HasParam(request.query, "code"))
        => /\ response.status = 200
           /\ auth_code = Some(Unquote(FirstRaw(request.query, "code")))
           /\ ListenerStopped

\* C2 amended: every GET callback whose query string carries a code parameter
\* with a non-empty value gets HTTP 200, the captured code is the first
\* non-empty value of the parameter (percent-decoded), and the listener
\* accepts nothing afterward.
C2_NonEmptyCodeCaptured ==
    /\ (JustServed /\ request.method = "GET" /\ HasValue(request.query, "code"))
          => /\ response.status = 200
             /\ auth_code = Some(Unquote(FirstNonEmptyRaw(request.query, "code")))
    /\ response.status = 200 => ListenerStopped

\* C2 witness: a request with two different code values was served and the
\* first one was captured, decoded.
C2_Witness ==
    /\ JustServed
    /\ request.method = "GET"
    /\ request.query = << << "code", << "%59", "+" >> >>, << "code", << "X" >> >> >>
    /\ auth_code = Some(<< "Y", " " >>)
    /\ response.status = 200

\* C3: a GET callback carrying an error parameter and no code parameter gets
\* HTTP 400, leaves the captured code unset, and is the one served request:
\* the listener stops.
C3_ErrorCallback ==
    /\ (JustServed /\ request.method = "GET"
          /\ HasParam(request.query, "error") /\ ~ HasParam(request.query, "code"))
          => response.status = 400
    /\ response.status = 400 => auth_code = None /\ ListenerStopped

\* C3 witness: an error callback was served, answered 400, the thread ended.
C3_Witness ==
    /\ server_thread = "finished"
    /\ response = [ status |-> 400, error |-> << "X" >> ]
    /\ auth_code = None
    /\ served = 1

\* C4 as stated: when join times out with the listener still waiting for its
\* first request, the run reports failure and issues no token POST, whatever
\* arrives afterwards.
C4_TimeoutMeansFailure ==
    (join_result = "timeout" /\ thread_at_join = "listening")
        => /\ posts = << >>
           /\ pc \in { "check", "done" }
           /\ pc = "done" => report = "authorization_failed"

\* C5 as stated: when the wait ends the run is in exactly one of CodeReceived,
\* ErrorReceived, TimedOut; a token POST is issued only from CodeReceived and
\* carries the captured code; after ErrorReceived or TimedOut there is none.
C5_PostOnlyFromCodeReceived ==
    LET TimedOut      == join_result = "timeout"
        CodeReceived  == join_result = "finished" /\ auth_code # None
        ErrorReceived == join_result = "finished" /\ auth_code = None
    IN  (choice = "1" /\ join_result # "none")
          => /\ Cardinality({ b \in { << 1, CodeReceived >>, << 2, ErrorReceived >>,
                                      << 3, TimedOut >> } : b[2] }) = 1
             /\ posts # << >> => CodeReceived /\ posts[1].data.code = auth_code[1]
             /\ (ErrorReceived \/ TimedOut) => posts = << >>

\* C6: a non-200 answer to the authorization-code exchange makes the
\* exchanger return no token, with exactly one POST issued.
C6_Non200IsFailure ==
    (choice = "1" /\ token_reply.kind = "response" /\ token_reply.status # 200)
        => /\ token_data = None
           /\ Len(posts) = 1
           /\ pc = "done" => report = "no_token"

\* C6 witness: the endpoint answered 401 with a JSON body, and the run ended
\* without a token after one POST.
C6_Witness ==
    /\ choice = "1"
    /\ token_reply.kind = "response"
    /\ token_reply.status = 401
    /\ token_reply.body.json
    /\ token_reply.body.pairs # << >>
    /\ token_data = None
    /\ Len(posts) = 1
    /\ pc = "done"

\* C7: on status 200 with a JSON body the exchanger returns the parsed
\* payload verbatim: exactly the fields of the body, each with its value.
C7_PayloadVerbatim ==
    (token_reply.kind = "response" /\ token_reply.status = 200
        /\ token_reply.body.json)
        => /\ token_data # None
           /\ IsPayloadOf(token_data[1], token_reply.body.pairs)

\* C7 witness: a 200 body with an access token and a refresh token came back
\* with both fields.
C7_Witness ==
    /\ choice = "1"
    /\ token_reply.status = 200
    /\ token_reply.body.pairs = << << "access_token", "t1" >>, << "refresh_token", "r1" >> >>
    /\ token_data = Some([ access_token |-> "t1", refresh_token |-> "r1" ])

\* C8: in client-credentials mode the browser is never opened and the
\* callback listener is never started.
C8_NoBrowserNoListener ==
    choice = "2"
        => /\ browser = << >>
           /\ server_thread = "unstarted"
           /\ served = 0
           /\ join_result = "none"

\* C8 witness: a client-credentials run ended with a token.
C8_Witness == choice = "2" /\ pc = "done" /\ report = "token_obtained"

\* C9: client-credentials mode issues exactly one POST to the token endpoint
\* with grant_type=client_credentials and scope basic, returns the parsed
\* payload on 200 and no token, without retry, on any other status.
C9_ClientCredentialsContract ==
    choice = "2"
        => /\ pc \in { "cc_wait", "cc_done", "done" }
                => /\ Len(posts) = 1
                   /\ posts[1].url = TOKEN_URL
                   /\ posts[1].data = [ grant_type    |-> "client_credentials",
                                        client_id     |-> CLIENT_ID,
                                        client_secret |-> CLIENT_SECRET,
                                        scope         |-> "basic" ]
           /\ pc = "cc_post" => posts = << >>
           /\ (token_reply.kind = "response" /\ token_reply.status = 200
                 /\ token_reply.body.json)
                => token_data # None
                   /\ IsPayloadOf(token_data[1], token_reply.body.pairs)
           /\ (token_reply.kind = "response" /\ token_reply.status # 200)
                => token_data = None
           /\ (pc = "done" /\ token_data = None) => report = "no_token"

\* C9 witness: a client-credentials run whose POST was answered 401 ended
\* without a token after one POST.
C9_Witness ==
    /\ choice = "2"
    /\ token_reply.kind = "response"
    /\ token_reply.status = 401
    /\ Len(posts) = 1
    /\ pc = "done"
    /\ report = "no_token"

\* C10: with the client id or the client secret absent the run fails fast:
\* it reports missing credentials, reads no choice, starts no listener, opens
\* no browser and issues no token POST.
C10_MissingCredentialsFailFast ==
    (CLIENT_ID = "" \/ CLIENT_SECRET = "")
        => /\ server_thread = "unstarted"
           /\ browser = << >>
           /\ posts = << >>
           /\ choice = ""
           /\ pc \in { "start", "done" }
           /\ pc = "done" => report = "missing_credentials"

\* C10 witness: a run with a client id but no secret ended on the
\* missing-credentials report.
C10_Witness ==
    /\ CLIENT_ID = "abc"
    /\ CLIENT_SECRET = ""
    /\ pc = "done"
    /\ report = "missing_credentials"

-----------------------------------------------------------------------------
(* Reading a query string back, as the authorization server does *)

\* seq cut at every occurrence of sep.
RECURSIVE SplitAt(_, _)
SplitAt(seq, sep) ==
    IF \A i \in DOMAIN seq : seq[i] # sep THEN << seq >>
    ELSE LET i == CHOOSE i \in DOMAIN seq :
                      seq[i] = sep /\ \A j \in 1..(i - 1) : seq[j] # sep
         IN  << SubSeq(seq, 1, i - 1) >>
               \o SplitAt(SubSeq(seq, i + 1, Len(seq)), sep)

\* One name=value segment, cut at its first "=".
ParsePair(segment) ==
    IF \A i \in DOMAIN segment : segment[i] # "=" THEN << segment, << >> >>
    ELSE LET i == CHOOSE i \in DOMAIN segment :
                      segment[i] = "=" /\ \A j \in 1..(i - 1) : segment[j] # "="
         IN  << SubSeq(segment, 1, i - 1), SubSeq(segment, i + 1, Len(segment)) >>

\* The parameters a query string carries, in order.
QueryParameters(query_string) ==
    LET segments == SplitAt(query_string, "&")
    IN  [ i \in DOMAIN segments |-> ParsePair(segments[i]) ]

\* sub occurs in seq as a contiguous run.
Contains(seq, sub) ==
    \E i \in 1..(Len(seq) - Len(sub) + 1) :
        SubSeq(seq, i, i + Len(sub) - 1) = sub

\* The receiver task is waiting for its request or handling it: it can still
\* write auth_code.
ReceiverMayWrite == server_thread \in { "listening", "handling" }

-----------------------------------------------------------------------------
(* Properties, continued *)

\* C11: nothing is retried: the browser is opened at most once, at most one
\* token POST is issued, the listener thread is started at most once, the
\* run never goes back to its initial state, and a finished run stays
\* finished.
C11_NoRetry ==
    /\ [](Len(browser) <= 1 /\ Len(posts) <= 1)
    /\ [][ /\ pc = "done" => pc' = "done"
           /\ pc # "start" => pc' # "start"
           /\ server_thread # "unstarted" => server_thread' # "unstarted"
           /\ (server_thread' = "started" /\ server_thread # "started")
                 => server_thread = "unstarted" ]_vars

\* C11 witness: an authorization-code run ended on a transport failure of
\* its single POST, with the browser opened once.
C11_Witness ==
    /\ choice = "1"
    /\ pc = "done"
    /\ token_reply.kind = "exception"
    /\ Len(posts) = 1
    /\ Len(browser) = 1

\* C12 as stated: the captured code is written at most once, and whenever the
\* main task is at a read of it the wait has ended and the receiver task can
\* no longer write it.
C12_SingleHandoff ==
    /\ served <= 1
    /\ pc \in { "check", "exchange" }
          => join_result # "none" /\ ~ ReceiverMayWrite

\* C13 as stated: read back, the query string of the authorization URL
\* carries exactly the four parameters response_type=code, client_id,
\* redirect_uri and scope, with the configured values.
C13_FourParameters ==
    browser # << >>
        => LET got == QueryParameters(browser[1].query_string)
           IN  /\ Len(got) = 4
               /\ { got[i] : i \in DOMAIN got }
                    = { << Chars("response_type"), Chars("code") >>,
                        << Chars("client_id"), Chars(CLIENT_ID) >>,
                        << Chars("redirect_uri"), Chars(REDIRECT_URI) >>,
                        << Chars("scope"), Chars("basic") >> }

\* C14 as stated: a request with a method other than GET or a path other
\* than /callback never sets the captured code.
C14_OnlyGetCallbackCaptures ==
    (JustServed /\ (request.method # "GET" \/ request.path # "/callback"))
        => auth_code = None

\* C15: a GET request with neither a code nor an error parameter is answered
\* 400 with the error "Unknown error", captures no code and is the one served
\* request; the run then issues no POST and ends as failed.
C15_UnknownError ==
    /\ (JustServed /\ request.method = "GET"
          /\ ~ HasParam(request.query, "code") /\ ~ HasParam(request.query, "error"))
          => response = [ status |-> 400, error |-> << "Unknown error" >> ]
    /\ response.error = << "Unknown error" >>
          => /\ response.status = 400
             /\ auth_code = None
             /\ ListenerStopped
             /\ posts = << >>
             /\ pc = "done" => report = "authorization_failed"

\* C15 witness: a GET with an empty query string was answered 400 "Unknown
\* error" and the run ended as failed.
C15_Witness ==
    /\ JustServed
    /\ request.method = "GET"
    /\ request.query = << >>
    /\ response = [ status |-> 400, error |-> << "Unknown error" >> ]
    /\ pc = "done"
    /\ report = "authorization_failed"

\* C16: the redirect_uri of the token POST is the configured one, and it is
\* the text written after redirect_uri= in the authorization URL of the run.
C16_SameRedirectUri ==
    (choice = "1" /\ posts # << >>)
        => /\ Len(browser) = 1
           /\ posts[1].data.redirect_uri = REDIRECT_URI
           /\ Contains(browser[1].query_string,
                       << "redirect_uri", "=" >> \o Chars(posts[1].data.redirect_uri))

\* C16 witness: a run configured with the non-default redirect URI issued its
\* token POST.
C16_Witness ==
    /\ choice = "1"
    /\ posts # << >>
    /\ REDIRECT_URI = SPECIAL_REDIRECT_URI

\* C17: a transport failure of the token POST, in either mode, makes the
\* exchanger return no token to its caller, which goes on normally, and no
\* second POST is issued.
C17_TransportFailure ==
    token_reply.kind = "exception"
        => /\ token_data = None
           /\ Len(posts) = 1
           /\ pc \in { "exchange_done", "cc_done", "done" }
           /\ pc = "done" => report = "no_token"

\* C17 witness: a client-credentials run whose POST failed in transport ended
\* without a token after one POST.
C17_Witness ==
    /\ choice = "2"
    /\ token_reply.kind = "exception"
    /\ Len(posts) = 1
    /\ pc = "done"
    /\ report = "no_token"

\* C18: the main task inspects the result only after join has returned; join
\* returns as finished only when the listener thread has ended, as timed out
\* only when it has not, and once the thread has ended join can return at
\* once and not by timeout.
C18_WaitForListenerOrTimeout ==
    /\ pc \in { "check", "exchange", "exchange_wait", "exchange_done" }
          => join_result \in { "finished", "timeout" }
    /\ pc \in { "start", "input", "start_thread", "open_browser", "join" }
          => join_result = "none"
    /\ join_result = "finished"
          => thread_at_join = "finished" /\ server_thread = "finished"
    /\ join_result = "timeout" => thread_at_join # "finished"
    /\ (pc = "join" /\ server_thread = "finished")
          => ENABLED JoinFinished /\ ~ ENABLED JoinTimeout

\* C18 witness: the callback was served before the timeout, the thread ended,
\* join returned and main went on to the exchange.
C18_Witness ==
    /\ join_result = "finished"
    /\ served = 1
    /\ auth_code # None
    /\ pc = "exchange"

\* The values requests.get puts on the wire under name: one per scalar entry.
SentValues(dict, name) == IF name \in DOMAIN dict THEN { dict[name] } ELSE {}

\* C19: with max_iterations = n > 0 the monitor makes at most n checks, and a
\* run that stops on its own has made exactly n checks and n - 1 sleeps (none
\* after the last check); with max_iterations = 0 it sleeps after every
\* check, can always check again, and never stops on its own.
C19_MonitorIterations ==
    /\ max_iterations > 0
          => /\ checks <= max_iterations
             /\ checks = max_iterations => monitor_pc # "sleeping"
             /\ monitor_pc = "stopped"
                   => checks = max_iterations /\ sleeps = max_iterations - 1
             /\ (monitor_pc = "loop" /\ checks < max_iterations)
                   => ENABLED MonitorCheck /\ ~ ENABLED MonitorStop
    /\ max_iterations = 0
          => /\ monitor_pc # "stopped"
             /\ sleeps = checks
             /\ ~ ENABLED MonitorStop
             /\ (monitor_pc = "loop" /\ checks < MaxChecks) => ENABLED MonitorCheck

\* C19 witness: a monitor started with max_iterations = 2 stopped on its own
\* after two checks and one sleep.
C19_Witness ==
    /\ max_iterations = 2
    /\ monitor_pc = "stopped"
    /\ checks = 2
    /\ sleeps = 1

\* C20 as stated: a call with a list of skill IDs sends every skill ID of the
\* list in its request parameters.
C20_EverySkillSent ==
    (search_pc # "idle" /\ skills # None)
        => \A i \in DOMAIN skills[1] :
               skills[1][i] \in SentValues(params, "skills[]")

-----------------------------------------------------------------------------
(* monitor_projects: what is reported as new *)

\* No id occurs twice in a sequence.
NoDuplicates(seq) == \A i, j \in DOMAIN seq : i # j => seq[i] # seq[j]

\* The ids of a sequence, as a set.
Range(seq) == { seq[i] : i \in DOMAIN seq }

\* seq continues prefix.
IsPrefix(prefix, seq) ==
    /\ Len(prefix) <= Len(seq)
    /\ \A i \in DOMAIN prefix : seq[i] = prefix[i]

\* C25: across the iterations of one monitor_projects run every project id
\* is printed as new at most once, the printed ids are exactly the seen ones,
\* the set of seen ids only grows, and a step prints only ids that were not
\* seen before it, so a project a later search returns again is not printed
\* again.
C25_ReportedOnce ==
    /\ [](NoDuplicates(printed) /\ Range(printed) = seen_projects)
    /\ [][ /\ seen_projects \subseteq seen_projects'
           /\ IsPrefix(printed, printed')
           /\ \A i \in DOMAIN printed' :
                i > Len(printed) => printed'[i] \notin seen_projects ]_vars

\* The last search lists 101 before 102 while 102 was printed before 101: 102
\* was reported by an earlier check, came back, and was not printed again.
C25_Witness ==
    /\ checks >= 2
    /\ projects = << 101, 102 >>
    /\ printed = << 102, 101 >>
    /\ seen_projects = { 101, 102 }

-----------------------------------------------------------------------------
(* oauth2_flow.py: the listener is launched before the browser *)

\* C26: in an authorization-code run the thread of the callback listener has
\* been started whenever the browser has been opened or a request has reached
\* the listener, and the step that opens the browser finds it started.
C26_ListenerBeforeBrowser ==
    /\ []((browser # << >> \/ request # NoRequest \/ served > 0)
            => server_thread # "unstarted")
    /\ [][browser' # browser => server_thread # "unstarted"]_vars

\* The browser has just been opened and the listener thread was started.
C26_Witness ==
    /\ choice = "1"
    /\ pc = "join"
    /\ Len(browser) = 1
    /\ server_thread = "started"

-----------------------------------------------------------------------------
(* pipeboard_client.py: what the client sends *)

\* The payloads of the calls of one tool, by position in calls.
CallsOf(tool_name) == { i \in DOMAIN calls : calls[i].params.name = tool_name }

\* C21: every get_insights tool call carries the fields the caller asked for
\* (or the default metric list) in its arguments.
C21_FieldsSent ==
    \A i \in CallsOf("get_insights") :
        /\ "fields" \in DOMAIN calls[i].params.arguments
        /\ i = Len(calls) =>
               /\ fields # None
               /\ calls[i].params.arguments["fields"] = fields[1]

\* C27: the JSON-RPC ids of the successive calls of one client are 1, 2, 3,
\* ... in order, whatever way the earlier calls ended, and the client's
\* counter is the id of the last call.
C27_RequestIds ==
    /\ request_id = Len(calls)
    /\ Len(outcomes) = Len(calls)
    /\ \A i \in DOMAIN calls : calls[i].id = i

\* A third call after an HTTP error and a JSON-RPC error, of two different
\* methods, carries id 3.
C27_Witness ==
    /\ Len(calls) = 3
    /\ outcomes[1] = "http"
    /\ outcomes[2] \in { "rpc_error", "tool_error" }
    /\ calls[3].id = 3
    /\ CallsOf("get_insights") # {}
    /\ CallsOf("create_campaign") # {}

-----------------------------------------------------------------------------
(* post_ad_example.py: what a run sends *)

\* The tools that create an object.
CreateTools == { "create_campaign", "create_adset", "create_ad_creative", "create_ad" }

\* The tools of the five steps, in order.
StepTools ==
    << "upload_ad_image", "create_campaign", "create_adset", "create_ad_creative",
       "create_ad" >>

\* C22: every create call a run of the ad-posting script issues carries
\* status PAUSED, and no call of the run carries status ACTIVE.
C22_CreatedPaused ==
    \A i \in DOMAIN calls :
        LET arguments == calls[i].params.arguments
        IN  /\ calls[i].params.name \in CreateTools =>
                  /\ "status" \in DOMAIN arguments
                  /\ arguments["status"] = "PAUSED"
            /\ "status" \in DOMAIN arguments => arguments["status"] # "ACTIVE"

\* A complete run: the four objects were created.
C22_Witness ==
    /\ post_pc = "done"
    /\ Len(calls) = 5
    /\ { calls[i].params.name : i \in DOMAIN calls } \cap CreateTools = CreateTools
    /\ post_printed = << "ok", "ok", "ok", "ok", "ok", "complete" >>

\* C24: the calls of a run are the five steps in their order; a call is
\* issued only when every earlier step printed success, each step issues
\* exactly one call, and a step that raised is the last thing the run did:
\* no call follows it and no call undoes what was created.
C24_StepsInOrder ==
    /\ [](/\ Len(calls) <= Len(StepTools)
          /\ \A i \in DOMAIN calls : calls[i].params.name = StepTools[i]
          /\ \A i \in DOMAIN post_printed :
                post_printed[i] = "error" => i = Len(post_printed) /\ post_pc = "done")
    /\ [][calls' # calls =>
             /\ \A i \in DOMAIN post_printed : post_printed[i] = "ok"
             /\ Len(post_printed) = Len(calls)
             /\ Len(calls') = Len(calls) + 1
             /\ \A i \in DOMAIN calls : calls'[i] = calls[i] ]_vars

\* The third step raised after two steps succeeded, and the run ended there.
C24_Witness ==
    /\ post_pc = "done"
    /\ post_printed = << "ok", "ok", "error" >>
    /\ Len(calls) = 3
    /\ campaign_id # None
    /\ adset_id = None

-----------------------------------------------------------------------------
(* verify_setup.py: what a run does *)

\* C23: a run of the verification script calls get_ad_accounts and then
\* get_campaigns and nothing else; without an API token or an ad account id
\* it makes no call and returns False; it returns False when the account
\* fetch fails, and True once the campaign fetch was made, failed or not.
C23_VerifyOnlyReads ==
    /\ Len(calls) <= 2
    /\ Len(calls) >= 1 => calls[1].params.name = "get_ad_accounts"
    /\ Len(calls) = 2 => calls[2].params.name = "get_campaigns"
    /\ (~ TruthyString(api_token) \/ ~ TruthyString(ad_account_id)) =>
          /\ calls = << >>
          /\ verify_pc = "done" => verified = Some(FALSE)
    /\ (Len(calls) >= 1 /\ outcomes[1] # "ok") =>
          /\ Len(calls) = 1
          /\ verify_pc = "done"
          /\ verified = Some(FALSE)
    /\ Len(calls) = 2 => verify_pc = "done" /\ verified = Some(TRUE)

\* The account fetch succeeded, the campaign fetch met an HTTP error, and
\* the run returned True.
C23_Witness ==
    /\ verify_pc = "done"
    /\ outcomes = << "ok", "http" >>
    /\ target_account # None
    /\ verified = Some(TRUE)
====
